---- MODULE Spec2Model ----
(***************************************************************************)
(* Geometry/material core of the rayt path tracer:                         *)
(*   src/world/geometry/mod.rs  (Geometry dispatch, Hittable, HitResult)   *)
(*   src/world/materials.rs     (Material, scatter models)                 *)
(*                                                                         *)
(* f64 is modelled as a fixed-point number with Scale units per 1.0,       *)
(* rounded symmetrically, together with NaN and the two infinities.        *)
(* Signed zero is not distinguished (-0.0 == 0.0 in every comparison the   *)
(* code makes).                                                            *)
(***************************************************************************)
EXTENDS Integers, Sequences, FiniteSets, TLC

\* ---------------------------------------------------------------- bounds
Scale == 1000      \* fixed-point units per 1.0
DirMax == 1        \* ray direction components range over -DirMax..DirMax
MaxDistance == 2   \* finite hit distances range over -1..MaxDistance
MaxTextureId == 2  \* texture references range over 1..MaxTextureId
MaxTime == 1       \* ray timestamps range over 0..MaxTime

\* ---------------------------------------------------------------- f64
Fin(v) == [k |-> "fin", v |-> v]
NaN == [k |-> "nan", v |-> 0]
Inf(s) == [k |-> "inf", v |-> s]

Num(n) == Fin(n * Scale)
Zero == Fin(0)
One == Fin(Scale)
Two == Fin(2 * Scale)

Abs(n) == IF n < 0 THEN -n ELSE n
Sgn(n) == IF n < 0 THEN -1 ELSE IF n > 0 THEN 1 ELSE 0

\* n / d rounded to nearest, ties away from zero (sign-symmetric, d > 0)
RoundDiv(n, d) == Sgn(n) * ((2 * Abs(n) + d) \div (2 * d))

RECURSIVE ISqrtIter(_, _, _)
ISqrtIter(n, lo, hi) ==
    IF lo >= hi THEN lo
    ELSE LET mid == (lo + hi + 1) \div 2
         IN IF mid * mid <= n THEN ISqrtIter(n, mid, hi)
                              ELSE ISqrtIter(n, lo, mid - 1)

ISqrt(n) == ISqrtIter(n, 0, IF n < 46340 THEN n ELSE 46340)

IsNaN(a) == a.k = "nan"
IsInf(a) == a.k = "inf"
FSign(a) == IF a.k = "inf" THEN a.v ELSE Sgn(a.v)

FNeg(a) ==
    CASE a.k = "nan" -> NaN
      [] a.k = "inf" -> Inf(-a.v)
      [] OTHER -> Fin(-a.v)

FAdd(a, b) ==
    CASE IsNaN(a) \/ IsNaN(b) -> NaN
      [] IsInf(a) /\ IsInf(b) -> IF a.v = b.v THEN a ELSE NaN
      [] IsInf(a) -> a
      [] IsInf(b) -> b
      [] OTHER -> Fin(a.v + b.v)

FSub(a, b) == FAdd(a, FNeg(b))

FMul(a, b) ==
    CASE IsNaN(a) \/ IsNaN(b) -> NaN
      [] IsInf(a) \/ IsInf(b) ->
           IF FSign(a) * FSign(b) = 0 THEN NaN ELSE Inf(FSign(a) * FSign(b))
      [] OTHER -> Fin(RoundDiv(a.v * b.v, Scale))

FDiv(a, b) ==
    CASE IsNaN(a) \/ IsNaN(b) -> NaN
      [] IsInf(a) /\ IsInf(b) -> NaN
      [] IsInf(a) -> Inf(a.v * (IF FSign(b) < 0 THEN -1 ELSE 1))
      [] IsInf(b) -> Zero
      [] b.v = 0 -> IF a.v = 0 THEN NaN ELSE Inf(Sgn(a.v))
      [] OTHER -> Fin(Sgn(b.v) * RoundDiv(a.v * Scale, Abs(b.v)))

FSqrt(a) ==
    CASE IsNaN(a) -> NaN
      [] IsInf(a) -> IF a.v > 0 THEN a ELSE NaN
      [] a.v < 0 -> NaN
      [] OTHER -> Fin(ISqrt(a.v * Scale))

\* f64::partial_cmp: None when either side is NaN
f64_partial_cmp(a, b) ==
    CASE IsNaN(a) \/ IsNaN(b) -> "None"
      [] IsInf(a) /\ IsInf(b) ->
           IF a.v < b.v THEN "Less" ELSE IF a.v > b.v THEN "Greater" ELSE "Equal"
      [] IsInf(a) -> IF a.v < 0 THEN "Less" ELSE "Greater"
      [] IsInf(b) -> IF b.v < 0 THEN "Greater" ELSE "Less"
      [] OTHER ->
           IF a.v < b.v THEN "Less" ELSE IF a.v > b.v THEN "Greater" ELSE "Equal"

FLt(a, b) == f64_partial_cmp(a, b) = "Less"
FGt(a, b) == f64_partial_cmp(a, b) = "Greater"
FLe(a, b) == f64_partial_cmp(a, b) \in {"Less", "Equal"}
FEq(a, b) == f64_partial_cmp(a, b) = "Equal"

\* f64::powi by repeated multiplication
RECURSIVE powi(_, _)
powi(x, n) == IF n = 0 THEN One ELSE FMul(x, powi(x, n - 1))

\* ---------------------------------------------------------------- Vector
Vec(x, y, z) == <<x, y, z>>
IVec(x, y, z) == <<Num(x), Num(y), Num(z)>>

VAdd(a, b) == <<FAdd(a[1], b[1]), FAdd(a[2], b[2]), FAdd(a[3], b[3])>>
VSub(a, b) == <<FSub(a[1], b[1]), FSub(a[2], b[2]), FSub(a[3], b[3])>>
VNeg(a) == <<FNeg(a[1]), FNeg(a[2]), FNeg(a[3])>>
VScale(s, a) == <<FMul(s, a[1]), FMul(s, a[2]), FMul(s, a[3])>>
dot(a, b) == FAdd(FAdd(FMul(a[1], b[1]), FMul(a[2], b[2])), FMul(a[3], b[3]))
len_squared(a) == dot(a, a)
len(a) == FSqrt(len_squared(a))
unit_vector(a) == LET l == len(a) IN <<FDiv(a[1], l), FDiv(a[2], l), FDiv(a[3], l)>>

\* ---------------------------------------------------------------- Ray
Ray_new(origin, direction, time) ==
    [origin |-> origin, direction |-> direction, time |-> time]

\* ---------------------------------------------------------------- Option / Result
None == [kind |-> "None"]
Some(x) == [kind |-> "Some", val |-> x]
Panic == [kind |-> "Panic"]
Ok == [kind |-> "Ok"]
Err(id) == [kind |-> "Err", missing |-> id]

\* ---------------------------------------------------------------- Colour, Texture, Assets
Colour_new(r, g, b) == <<r, g, b>>

\* A texture refers to an asset by identifier; assets is the set of
\* identifiers the asset table resolves.
Texture(id) == [id |-> id]

Texture_validate(texture, assets) ==
    IF texture.id \in assets THEN Ok ELSE Err(texture.id)

\* The colour of an asset depends on the asset and on the texture
\* coordinates; a reference that does not resolve has no colour to give.
Texture_value(texture, texture_coords, point, assets) ==
    IF texture.id \in assets
    THEN Some(Colour_new(Num(texture.id), texture_coords[1], texture_coords[2]))
    ELSE Panic

\* ---------------------------------------------------------------- Material
Lambertian(albedo) == [tag |-> "Lambertian", albedo |-> albedo]
Metal(albedo, fuzz) == [tag |-> "Metal", albedo |-> albedo, fuzz |-> fuzz]
Dielectric(refractive_index) ==
    [tag |-> "Dielectric", refractive_index |-> refractive_index]
DiffuseLight(emit) == [tag |-> "DiffuseLight", emit |-> emit]
Isotropic(albedo) == [tag |-> "Isotropic", albedo |-> albedo]

ScatterResult(ray, attenuation) ==
    [kind |-> "Some", ray |-> ray, attenuation |-> attenuation]

\* rng.gen::<f64>() draws from [0, 1)
Gen == {Fin(0), Fin(Scale \div 4), Fin(Scale \div 2), Fin((3 * Scale) \div 4)}

\* The points the rejection loop can return: 2 * (g1, g2, g3) - (1, 1, 1)
\* for draws g1, g2, g3, kept only when len_squared < 1.
random_point_in_unit_sphere ==
    LET centre == Vec(One, One, One)
    IN { point \in { VSub(VScale(Two, Vec(g1, g2, g3)), centre) :
                         g1 \in Gen, g2 \in Gen, g3 \in Gen } :
           FLt(len_squared(point), One) }

reflect(unit_vector_, surface_normal) ==
    LET uv == unit_vector_
        n == surface_normal
        b == VScale(dot(uv, n), n)
    IN VSub(uv, VScale(Two, b))

refract(unit_vector_, surface_normal, refractive_index_ratio) ==
    LET uv == unit_vector_
        n == surface_normal
        dt == dot(uv, n)
        ni_over_nt == refractive_index_ratio
        discriminant ==
            FSub(Two, FMul(FMul(ni_over_nt, ni_over_nt), FSub(One, FMul(dt, dt))))
    IN IF FGt(discriminant, Zero)
       THEN Some(VSub(VScale(ni_over_nt, VSub(uv, VScale(dt, n))),
                      VScale(FSqrt(discriminant), n)))
       ELSE None

scatter_lambertian(albedo, ray, hit_point, surface_normal, texture_coords, assets, diffuse) ==
    LET target == VAdd(VAdd(hit_point, surface_normal), diffuse)
        new_ray == Ray_new(hit_point, VSub(target, hit_point), ray.time)
        attenuation == Texture_value(albedo, texture_coords, hit_point, assets)
    IN IF attenuation.kind = "Panic" THEN Panic
       ELSE ScatterResult(new_ray, attenuation.val)

\* scatter_metal rejecting only a strictly negative dot product
scatter_metal_strict(albedo, fuzz, ray, hit_point, surface_normal, rnd) ==
    LET uv == unit_vector(ray.direction)
        reflected == reflect(uv, surface_normal)
        new_ray == Ray_new(hit_point, VAdd(reflected, VScale(fuzz, rnd)), ray.time)
    IN IF FLt(dot(new_ray.direction, surface_normal), Zero)
       THEN None
       ELSE ScatterResult(new_ray, albedo)

scatter_metal(albedo, fuzz, ray, hit_point, surface_normal, rnd) ==
    LET uv == unit_vector(ray.direction)
        reflected == reflect(uv, surface_normal)
        new_ray == Ray_new(hit_point, VAdd(reflected, VScale(fuzz, rnd)), ray.time)
    IN IF FLe(dot(new_ray.direction, surface_normal), Zero)
       THEN None
       ELSE ScatterResult(new_ray, albedo)

REFRACTIVE_INDEX_OF_AIR == One
DIELECTRIC_ATTENUATION == <<One, One, One>>

reflectivity_schlick_approx(cosine, n_i, n_t) ==
    LET r0a == FDiv(FSub(n_i, n_t), FAdd(n_i, n_t))
        r0 == FMul(r0a, r0a)
    IN FAdd(r0, FMul(FSub(One, r0), powi(FSub(One, cosine), 5)))

\* scatter_dielectric absorbing the ray when refraction is impossible
scatter_dielectric_absorbs(refractive_index, ray, hit_point, surface_normal, reflect_rand) ==
    LET uv == unit_vector(ray.direction)
        reflected == reflect(uv, surface_normal)
        uvn == dot(uv, surface_normal)
        entering == FGt(uvn, Zero)
        sign == IF entering THEN FNeg(One) ELSE One
        n_i == IF entering THEN refractive_index ELSE REFRACTIVE_INDEX_OF_AIR
        n_t == IF entering THEN REFRACTIVE_INDEX_OF_AIR ELSE refractive_index
        cosine == FMul(FNeg(sign), uvn)
        reflect_prob == reflectivity_schlick_approx(cosine, n_i, n_t)
        should_reflect == FLt(reflect_rand, reflect_prob)
        maybe_refracted == refract(uv, VScale(sign, surface_normal), FDiv(n_i, n_t))
    IN IF should_reflect
       THEN ScatterResult(Ray_new(hit_point, reflected, ray.time),
                          Colour_new(One, One, One))
       ELSE IF maybe_refracted.kind = "Some"
            THEN ScatterResult(Ray_new(hit_point, maybe_refracted.val, ray.time),
                               Colour_new(One, One, One))
            ELSE None

scatter_dielectric(refractive_index, ray, hit_point, surface_normal, reflect_rand) ==
    LET uv == unit_vector(ray.direction)
        reflected == reflect(uv, surface_normal)
        uvn == dot(uv, surface_normal)
        entering == FGt(uvn, Zero)
        sign == IF entering THEN FNeg(One) ELSE One
        n_i == IF entering THEN refractive_index ELSE REFRACTIVE_INDEX_OF_AIR
        n_t == IF entering THEN REFRACTIVE_INDEX_OF_AIR ELSE refractive_index
        cosine == FMul(FNeg(sign), uvn)
        reflect_prob == reflectivity_schlick_approx(cosine, n_i, n_t)
        should_reflect == FLt(reflect_rand, reflect_prob)
        maybe_refracted ==
            IF should_reflect THEN None
            ELSE refract(uv, VScale(sign, surface_normal), FDiv(n_i, n_t))
        new_ray ==
            IF maybe_refracted.kind = "Some"
            THEN Ray_new(hit_point, maybe_refracted.val, ray.time)
            ELSE Ray_new(hit_point, reflected, ray.time)
    IN ScatterResult(new_ray,
                     Colour_new(DIELECTRIC_ATTENUATION[1],
                                DIELECTRIC_ATTENUATION[2],
                                DIELECTRIC_ATTENUATION[3]))

\* scatter_isotropic starting the scattered ray at the incoming ray's origin
scatter_isotropic_from_ray_origin(albedo, ray, hit_point, texture_coords, assets, rnd) ==
    LET scattered == Ray_new(ray.origin, rnd, ray.time)
        attenuation == Texture_value(albedo, texture_coords, hit_point, assets)
    IN IF attenuation.kind = "Panic" THEN Panic
       ELSE ScatterResult(scattered, attenuation.val)

scatter_isotropic(albedo, ray, hit_point, texture_coords, assets, rnd) ==
    LET scattered == Ray_new(hit_point, rnd, ray.time)
        attenuation == Texture_value(albedo, texture_coords, hit_point, assets)
    IN IF attenuation.kind = "Panic" THEN Panic
       ELSE ScatterResult(scattered, attenuation.val)

\* Material::scatter; rnd is the unit-sphere draw and reflect_rand the
\* uniform draw the active variant consumes.
scatter(self, ray, hit_point, surface_normal, texture_coords, assets, rnd, reflect_rand) ==
    CASE self.tag = "Lambertian" ->
           scatter_lambertian(self.albedo, ray, hit_point, surface_normal,
                              texture_coords, assets, rnd)
      [] self.tag = "Metal" ->
           scatter_metal(self.albedo, self.fuzz, ray, hit_point, surface_normal, rnd)
      [] self.tag = "Dielectric" ->
           scatter_dielectric(self.refractive_index, ray, hit_point, surface_normal,
                              reflect_rand)
      [] self.tag = "DiffuseLight" -> None
      [] self.tag = "Isotropic" ->
           scatter_isotropic(self.albedo, ray, hit_point, texture_coords, assets, rnd)

\* emitted evaluating the texture of every texture-bearing variant
emitted_any_texture(self, texture_coords, point, assets) ==
    CASE self.tag = "DiffuseLight" ->
           Texture_value(self.emit, texture_coords, point, assets)
      [] self.tag \in {"Lambertian", "Isotropic"} ->
           Texture_value(self.albedo, texture_coords, point, assets)
      [] OTHER -> Some(Colour_new(Zero, Zero, Zero))

emitted(self, texture_coords, point, assets) ==
    IF self.tag = "DiffuseLight"
    THEN Texture_value(self.emit, texture_coords, point, assets)
    ELSE Some(Colour_new(Zero, Zero, Zero))

validate(self, assets) ==
    IF self.tag = "Lambertian"
    THEN LET r == Texture_validate(self.albedo, assets)
         IN IF r.kind = "Err" THEN r ELSE Ok
    ELSE Ok

\* ---------------------------------------------------------------- HitResult
HitResult(distance, ray, point, surface_normal, material, texture_coords) ==
    [distance |-> distance, ray |-> ray, point |-> point,
     surface_normal |-> surface_normal, material |-> material,
     texture_coords |-> texture_coords]

\* front_face with the sign test inverted
front_face_positive(self) == FGt(dot(self.ray.direction, self.surface_normal), Zero)

front_face(self) == FLt(dot(self.ray.direction, self.surface_normal), Zero)

face_normal(self) ==
    IF front_face(self) THEN self.surface_normal ELSE VNeg(self.surface_normal)

Ordering(o) == [kind |-> "Ordering", val |-> o]
Bool(b) == [kind |-> "Bool", val |-> b]

\* cmp with its operands exchanged
cmp_reversed(self, other) ==
    LET r == f64_partial_cmp(other.distance, self.distance)
    IN IF r = "None" THEN [kind |-> "Panic"] ELSE [kind |-> "Ordering", val |-> r]

\* cmp with unwrap_or(Ordering::Equal) in place of unwrap()
cmp_unwrap_or_equal(self, other) ==
    LET r == f64_partial_cmp(self.distance, other.distance)
    IN IF r = "None" THEN [kind |-> "Ordering", val |-> "Equal"]
       ELSE [kind |-> "Ordering", val |-> r]

\* Ord::cmp: unwrap() of the f64 comparison panics on None
cmp(self, other) ==
    LET r == f64_partial_cmp(self.distance, other.distance)
    IN IF r = "None" THEN Panic ELSE Ordering(r)

partial_cmp(self, other) ==
    LET c == cmp(self, other)
    IN IF c.kind = "Panic" THEN Panic ELSE Some(c)

eq(self, other) ==
    LET c == cmp(self, other)
    IN IF c.kind = "Panic" THEN Panic ELSE Bool(c.val = "Equal")

\* the comparison operators PartialOrd derives from partial_cmp
lt(self, other) ==
    LET c == partial_cmp(self, other)
    IN IF c.kind = "Panic" THEN Panic
       ELSE Bool(c.kind = "Some" /\ c.val.val = "Less")

gt(self, other) ==
    LET c == partial_cmp(self, other)
    IN IF c.kind = "Panic" THEN Panic
       ELSE Bool(c.kind = "Some" /\ c.val.val = "Greater")

\* ---------------------------------------------------------------- Geometry
Variants == {"Bvh", "Sphere", "MovingSphere", "Cube", "ConstantMedium",
             "XyRect", "XzRect", "YzRect", "Flip", "Translate", "RotateY"}

\* inner.overrides: whether the boxed type supplies its own
\* pdf_value / random instead of inheriting the trait's default
Geometry(variant, overrides) ==
    [variant |-> variant, inner |-> [overrides |-> overrides]]

NoVector == <<>>

\* a provided pdf_value that returns 0.0 instead of panicking
Hittable_pdf_value_zero(self, origin_, direction_) == Some(Zero)

\* Hittable's provided methods: unimplemented!()
Hittable_pdf_value(self, origin_, direction_) == Panic
Hittable_random(self, origin_) == Panic

\* The call as the boxed variant receives it, and what it returns. The
\* value an overriding type computes is kept as an application term.
Inner_pdf_value(variant, inner, origin_, direction_) ==
    [call |-> [variant |-> variant, method |-> "pdf_value",
               origin |-> origin_, direction |-> direction_],
     ret |-> IF inner.overrides
             THEN Some([fn |-> "pdf_value", variant |-> variant,
                        origin |-> origin_, direction |-> direction_])
             ELSE Hittable_pdf_value(inner, origin_, direction_)]

Inner_random(variant, inner, origin_) ==
    [call |-> [variant |-> variant, method |-> "random",
               origin |-> origin_, direction |-> NoVector],
     ret |-> IF inner.overrides
             THEN Some([fn |-> "random", variant |-> variant,
                        origin |-> origin_, direction |-> NoVector])
             ELSE Hittable_random(inner, origin_)]

Geometry_pdf_value(self, origin_, direction_) ==
    CASE self.variant = "Bvh" -> Inner_pdf_value("Bvh", self.inner, origin_, direction_)
      [] self.variant = "Sphere" -> Inner_pdf_value("Sphere", self.inner, origin_, direction_)
      [] self.variant = "MovingSphere" ->
           Inner_pdf_value("MovingSphere", self.inner, origin_, direction_)
      [] self.variant = "Cube" -> Inner_pdf_value("Cube", self.inner, origin_, direction_)
      [] self.variant = "ConstantMedium" ->
           Inner_pdf_value("ConstantMedium", self.inner, origin_, direction_)
      [] self.variant = "XyRect" -> Inner_pdf_value("XyRect", self.inner, origin_, direction_)
      [] self.variant = "XzRect" -> Inner_pdf_value("XzRect", self.inner, origin_, direction_)
      [] self.variant = "YzRect" -> Inner_pdf_value("YzRect", self.inner, origin_, direction_)
      [] self.variant = "Flip" -> Inner_pdf_value("Flip", self.inner, origin_, direction_)
      [] self.variant = "Translate" ->
           Inner_pdf_value("Translate", self.inner, origin_, direction_)
      [] self.variant = "RotateY" ->
           Inner_pdf_value("RotateY", self.inner, origin_, direction_)

Geometry_random(self, origin_) ==
    CASE self.variant = "Bvh" -> Inner_random("Bvh", self.inner, origin_)
      [] self.variant = "Sphere" -> Inner_random("Sphere", self.inner, origin_)
      [] self.variant = "MovingSphere" -> Inner_random("MovingSphere", self.inner, origin_)
      [] self.variant = "Cube" -> Inner_random("Cube", self.inner, origin_)
      [] self.variant = "ConstantMedium" ->
           Inner_random("ConstantMedium", self.inner, origin_)
      [] self.variant = "XyRect" -> Inner_random("XyRect", self.inner, origin_)
      [] self.variant = "XzRect" -> Inner_random("XzRect", self.inner, origin_)
      [] self.variant = "YzRect" -> Inner_random("YzRect", self.inner, origin_)
      [] self.variant = "Flip" -> Inner_random("Flip", self.inner, origin_)
      [] self.variant = "Translate" -> Inner_random("Translate", self.inner, origin_)
      [] self.variant = "RotateY" -> Inner_random("RotateY", self.inner, origin_)

\* ---------------------------------------------------------------- inputs
Coords == (-DirMax)..DirMax
Directions == { IVec(x, y, z) : x \in Coords, y \in Coords, z \in Coords }

Normals == { IVec(0, 0, 1), IVec(0, 1, 0), IVec(-1, 0, 0),
             Vec(Fin((6 * Scale) \div 10), Fin((8 * Scale) \div 10), Zero) }

Times == { Num(t) : t \in 0..MaxTime }
RayOrigin == IVec(0, 0, -5)
HitPoint == IVec(1, 2, 3)
TextureCoords == { <<Zero, Zero>>, <<One, Fin(Scale \div 2)>> }
TextureIds == 1..MaxTextureId
Textures == { Texture(id) : id \in TextureIds }
AssetTables == { 1..k : k \in (MaxTextureId - 1)..MaxTextureId }

Albedo == Colour_new(Fin((8 * Scale) \div 10), Fin((6 * Scale) \div 10),
                     Fin((2 * Scale) \div 10))
Fuzzes == { Zero, Fin(Scale \div 2), One }
RefractiveIndices == { One, Fin((3 * Scale) \div 2), Two }

Materials ==
    { Lambertian(t) : t \in Textures }
    \cup { Metal(Albedo, f) : f \in Fuzzes }
    \cup { Dielectric(ri) : ri \in RefractiveIndices }
    \cup { DiffuseLight(t) : t \in Textures }
    \cup { Isotropic(t) : t \in Textures }

Distances == { Num(d) : d \in (-1)..MaxDistance } \cup { NaN, Inf(1), Inf(-1) }

DefaultHit ==
    HitResult(Zero, Ray_new(RayOrigin, IVec(0, 0, 1), Zero), HitPoint,
              IVec(0, 0, -1), Dielectric(Fin((3 * Scale) \div 2)),
              <<One, Fin(Scale \div 2)>>)
DefaultGeometry == Geometry("Sphere", FALSE)
NoCall == [variant |-> "", method |-> "", origin |-> NoVector, direction |-> NoVector]
NoDraw == [sphere |-> NoVector, gen |-> Zero]

\* ---------------------------------------------------------------- state
VARIABLES
    hit,         \* the HitResult operated on; scatter takes its arguments from it
    other,       \* the HitResult it is compared with
    assets,      \* the identifiers the asset table resolves
    geometry,    \* the Geometry pdf_value / random are called on
    origin,      \* their origin argument
    direction,   \* pdf_value's direction argument
    op,          \* the operation called, "" before the call
    rng,         \* the random draws that call consumed
    inner_call,  \* the call the active Geometry variant received
    ret          \* what the call returned

vars == <<hit, other, assets, geometry, origin, direction, op, rng, inner_call, ret>>
inputs == <<hit, other, assets, geometry, origin, direction>>

Start == op = "" /\ rng = NoDraw /\ inner_call = NoCall /\ ret = None

\* ------------------------------------------------ materials specification
Init ==
    /\ hit \in { HitResult(One, Ray_new(RayOrigin, d, t), HitPoint, n, m, tc) :
                   d \in Directions, t \in Times, n \in Normals,
                   m \in Materials, tc \in TextureCoords }
    /\ other = DefaultHit
    /\ assets \in AssetTables
    /\ geometry = DefaultGeometry /\ origin = RayOrigin /\ direction = IVec(0, 0, 1)
    /\ Start

Scatter ==
    \E rnd \in IF hit.material.tag \in {"Lambertian", "Metal", "Isotropic"}
               THEN random_point_in_unit_sphere ELSE {NoVector},
       reflect_rand \in IF hit.material.tag = "Dielectric" THEN Gen ELSE {Zero} :
        /\ op = ""
        /\ op' = "scatter"
        /\ rng' = [sphere |-> rnd, gen |-> reflect_rand]
        /\ ret' = scatter(hit.material, hit.ray, hit.point, hit.surface_normal,
                          hit.texture_coords, assets, rnd, reflect_rand)
        /\ UNCHANGED <<inputs, inner_call>>

Emitted ==
    /\ op = ""
    /\ op' = "emitted"
    /\ ret' = emitted(hit.material, hit.texture_coords, hit.point, assets)
    /\ rng' = NoDraw
    /\ UNCHANGED <<inputs, inner_call>>

Validate ==
    /\ op = ""
    /\ op' = "validate"
    /\ ret' = validate(hit.material, assets)
    /\ rng' = NoDraw
    /\ UNCHANGED <<inputs, inner_call>>

Next == Scatter \/ Emitted \/ Validate

Spec == Init /\ [][Next]_vars

\* ------------------------------------------------ HitResult specification
\* directions of the compared hits: the grid, one with a NaN component and
\* one with an infinite component
HitDirections ==
    Directions \cup { Vec(NaN, Zero, One), Vec(Inf(1), One, One) }

OtherHits ==
    { HitResult(d, DefaultHit.ray, DefaultHit.point, DefaultHit.surface_normal,
                DefaultHit.material, DefaultHit.texture_coords) : d \in Distances }
    \cup { HitResult(d, Ray_new(HitPoint, IVec(1, -1, 0), One), RayOrigin,
                     IVec(0, 1, 0), Metal(Albedo, One), <<Zero, Zero>>) :
             d \in Distances }

InitHit ==
    /\ hit \in { HitResult(d, Ray_new(RayOrigin, dir, Zero), HitPoint, n,
                           DefaultHit.material, DefaultHit.texture_coords) :
                   d \in Distances, dir \in HitDirections, n \in Normals }
    /\ other \in OtherHits
    /\ assets = TextureIds
    /\ geometry = DefaultGeometry /\ origin = RayOrigin /\ direction = IVec(0, 0, 1)
    /\ Start

Call(name, result) ==
    /\ op = ""
    /\ op' = name
    /\ ret' = result
    /\ rng' = NoDraw
    /\ UNCHANGED <<inputs, inner_call>>

Cmp == Call("cmp", cmp(hit, other))
PartialCmp == Call("partial_cmp", partial_cmp(hit, other))
Eq == Call("eq", eq(hit, other))
Lt == Call("lt", lt(hit, other))
Gt == Call("gt", gt(hit, other))
FrontFace == Call("front_face", Bool(front_face(hit)))
FaceNormal == Call("face_normal", Some(face_normal(hit)))

NextHit == Cmp \/ PartialCmp \/ Eq \/ Lt \/ Gt \/ FrontFace \/ FaceNormal

SpecHit == InitHit /\ [][NextHit]_vars

\* ------------------------------------------------ Geometry specification
InitGeom ==
    /\ hit = DefaultHit /\ other = DefaultHit /\ assets = TextureIds
    /\ geometry \in { Geometry(v, o) : v \in Variants, o \in BOOLEAN }
    /\ origin \in { RayOrigin, HitPoint }
    /\ direction \in Directions
    /\ Start

PdfValue ==
    LET r == Geometry_pdf_value(geometry, origin, direction)
    IN /\ op = ""
       /\ op' = "pdf_value"
       /\ inner_call' = r.call
       /\ ret' = r.ret
       /\ rng' = NoDraw
       /\ UNCHANGED inputs

Random ==
    LET r == Geometry_random(geometry, origin)
    IN /\ op = ""
       /\ op' = "random"
       /\ inner_call' = r.call
       /\ ret' = r.ret
       /\ rng' = NoDraw
       /\ UNCHANGED inputs

NextGeom == PdfValue \/ Random

SpecGeom == InitGeom /\ [][NextGeom]_vars

\* ================================================================ claims
Comparisons == {"cmp", "partial_cmp", "eq", "lt", "gt"}
BothOrdered == ~IsNaN(hit.distance) /\ ~IsNaN(other.distance)

\* position of a non-NaN distance on the extended real line
DistanceKey(d) == IF IsInf(d) THEN d.v * (MaxDistance + 2) * Scale ELSE d.v
DistanceOrder(a, b) ==
    IF DistanceKey(a) < DistanceKey(b) THEN "Less"
    ELSE IF DistanceKey(a) > DistanceKey(b) THEN "Greater" ELSE "Equal"

\* C1: for two HitResults whose distances are not NaN, cmp and partial_cmp
\* give exactly the ordering of the two distances and == holds iff the
\* distances are equal, whatever the other fields of the two hits are.
C1_OrderedByDistanceOnly ==
    BothOrdered =>
        /\ op = "cmp" => ret = Ordering(DistanceOrder(hit.distance, other.distance))
        /\ op = "partial_cmp" =>
             ret = Some(Ordering(DistanceOrder(hit.distance, other.distance)))
        /\ op = "eq" =>
             ret = Bool(DistanceKey(hit.distance) = DistanceKey(other.distance))

C1_Witness ==
    /\ op = "eq" /\ ret = Bool(TRUE)
    /\ hit.ray # other.ray /\ hit.point # other.point
    /\ hit.surface_normal # other.surface_normal
    /\ hit.material # other.material /\ hit.texture_coords # other.texture_coords

\* C6: a comparison in which at least one distance is NaN panics: cmp,
\* partial_cmp, ==, < and > never return an ordering, None or a boolean.
C6_NaNDistancePanics ==
    (op \in Comparisons /\ ~BothOrdered) => ret = Panic

C6_Witness ==
    /\ op = "lt" /\ IsNaN(other.distance) /\ ~IsNaN(hit.distance) /\ ret = Panic

\* C4: front_face() is true iff the dot product of the ray direction and
\* surface_normal is strictly negative; face_normal() is surface_normal on a
\* front face and its negation otherwise, so the dot product of the ray
\* direction and face_normal() is never positive, and is 0 only when the
\* ray grazes the surface.
C4_FaceNormalOpposesRay ==
    LET d == dot(hit.ray.direction, hit.surface_normal)
        negative == ~IsNaN(d) /\ FSign(d) = -1
    IN /\ op = "front_face" => ret = Bool(negative)
       /\ op = "face_normal" =>
            /\ ret.val = IF negative THEN hit.surface_normal
                         ELSE VNeg(hit.surface_normal)
            /\ ~FGt(dot(hit.ray.direction, ret.val), Zero)
            /\ FEq(dot(hit.ray.direction, ret.val), Zero) => FEq(d, Zero)

C4_Witness ==
    /\ op = "face_normal"
    /\ FGt(dot(hit.ray.direction, hit.surface_normal), Zero)
    /\ ret.val = VNeg(hit.surface_normal)
    /\ FLt(dot(hit.ray.direction, ret.val), Zero)

\* the direction scatter_metal gives its ray
MetalDirection ==
    VAdd(reflect(unit_vector(hit.ray.direction), hit.surface_normal),
         VScale(hit.material.fuzz, rng.sphere))

\* C2: Metal scatter returns none whenever reflect(unit(direction), normal)
\* + fuzz * random_point_in_unit_sphere() has a dot product <= 0 with the
\* surface normal; when it is > 0 the result's ray has that direction and
\* its attenuation is the albedo.
C2_MetalAbsorbsIntoSurface ==
    (op = "scatter" /\ hit.material.tag = "Metal") =>
        LET dp == dot(MetalDirection, hit.surface_normal)
        IN /\ FLe(dp, Zero) => ret = None
           /\ FGt(dp, Zero) =>
                /\ ret.kind = "Some"
                /\ ret.ray.direction = MetalDirection
                /\ ret.attenuation = hit.material.albedo

C2_Witness ==
    /\ op = "scatter" /\ hit.material.tag = "Metal" /\ ret = None
    /\ FGt(dot(reflect(unit_vector(hit.ray.direction), hit.surface_normal),
               hit.surface_normal), Zero)
    /\ FLt(dot(MetalDirection, hit.surface_normal), Zero)

\* C3: Dielectric scatter never returns none, and the attenuation of its
\* result is exactly (1,1,1) on the reflection and the refraction path.
C3_DielectricAlwaysScatters ==
    (op = "scatter" /\ hit.material.tag = "Dielectric") =>
        /\ ret.kind = "Some"
        /\ ret.attenuation = <<One, One, One>>

C3_Witness ==
    /\ op = "scatter" /\ hit.material.tag = "Dielectric" /\ ret.kind = "Some"
    /\ ret.attenuation = <<One, One, One>>
    /\ ret.ray.direction # reflect(unit_vector(hit.ray.direction), hit.surface_normal)

\* C5: Material::validate returns the failure of the texture's validate for
\* every texture-bearing variant (Lambertian albedo, DiffuseLight emit,
\* Isotropic albedo) whose reference does not resolve, and succeeds for
\* Metal and Dielectric.
C5_ValidateRecursesIntoTextures ==
    op = "validate" =>
        /\ hit.material.tag = "Lambertian" =>
             ret = Texture_validate(hit.material.albedo, assets)
        /\ hit.material.tag = "DiffuseLight" =>
             ret = Texture_validate(hit.material.emit, assets)
        /\ hit.material.tag = "Isotropic" =>
             ret = Texture_validate(hit.material.albedo, assets)
        /\ hit.material.tag \in {"Metal", "Dielectric"} => ret = Ok

\* C7: a DiffuseLight never scatters; emitted on a DiffuseLight is the value
\* of its emit texture at the given texture coordinates and point, and
\* emitted on every other variant is the colour (0,0,0).
C7_OnlyDiffuseLightEmits ==
    /\ (op = "scatter" /\ hit.material.tag = "DiffuseLight") => ret = None
    /\ op = "emitted" =>
         IF hit.material.tag = "DiffuseLight"
         THEN ret = Texture_value(hit.material.emit, hit.texture_coords,
                                  hit.point, assets)
         ELSE ret = Some(<<Zero, Zero, Zero>>)

C7_Witness ==
    /\ op = "emitted" /\ hit.material.tag = "DiffuseLight"
    /\ ret.kind = "Some" /\ ret.val # <<Zero, Zero, Zero>>
    /\ hit.texture_coords # <<Zero, Zero>>

\* C8: pdf_value / random on a Geometry reach the active variant with the
\* same arguments, and when that variant does not override them the call
\* panics: no value is returned in its place.
C8_NonAttractorFailsFast ==
    op \in {"pdf_value", "random"} =>
        /\ inner_call.variant = geometry.variant
        /\ inner_call.method = op
        /\ inner_call.origin = origin
        /\ op = "pdf_value" => inner_call.direction = direction
        /\ ~geometry.inner.overrides => ret = Panic

C8_Witness ==
    /\ op = "pdf_value" /\ geometry.variant = "Bvh" /\ ~geometry.inner.overrides
    /\ inner_call.direction = direction /\ direction # IVec(0, 0, 1)
    /\ ret = Panic

\* Snell's law for unit d and unit n with n_i sin(i) = n_t sin(t): the
\* discriminant 1 - (n_i/n_t)^2 (1 - (d.n)^2) and the refracted direction
SnellDiscriminant(d, n, ratio) ==
    FSub(One, FMul(FMul(ratio, ratio), FSub(One, FMul(dot(d, n), dot(d, n)))))

SnellRefraction(d, n, ratio) ==
    VSub(VScale(ratio, VSub(d, VScale(dot(d, n), n))),
         VScale(FSqrt(SnellDiscriminant(d, n, ratio)), n))

\* C9: for a unit direction d and unit normal n, Dielectric scatter reflects
\* d about n when the uniform draw is below schlick(cosine, n_i, n_t);
\* otherwise it refracts d by Snell's law, except that it reflects when the
\* discriminant 1 - (n_i/n_t)^2 (1 - (d.n)^2) is non-positive.
C9_DielectricDirection ==
    (/\ op = "scatter" /\ hit.material.tag = "Dielectric"
     /\ hit.ray.direction # IVec(0, 0, 0)
     /\ len_squared(hit.surface_normal) = One) =>
        LET d == unit_vector(hit.ray.direction)
            n == hit.surface_normal
            inside == FGt(dot(d, n), Zero)
            n_i == IF inside THEN hit.material.refractive_index ELSE One
            n_t == IF inside THEN One ELSE hit.material.refractive_index
            facing == IF inside THEN VNeg(n) ELSE n
            cosine == IF inside THEN dot(d, n) ELSE FNeg(dot(d, n))
            ratio == FDiv(n_i, n_t)
        IN ret.ray.direction =
             IF FLt(rng.gen, reflectivity_schlick_approx(cosine, n_i, n_t))
             THEN reflect(d, n)
             ELSE IF FLe(SnellDiscriminant(d, facing, ratio), Zero)
                  THEN reflect(d, n)
                  ELSE SnellRefraction(d, facing, ratio)

\* C10: every ScatterResult that scatter returns holds a ray whose origin is
\* the hit point passed in and whose time is the time of the incoming ray,
\* and scatter changes neither the incoming ray nor the material.
C10_ScatteredRayKeepsPointAndTime ==
    /\ [](op = "scatter" /\ ret.kind = "Some" =>
            ret.ray.origin = hit.point /\ ret.ray.time = hit.ray.time)
    /\ [][op' = "scatter" => hit' = hit]_vars

C10_Witness ==
    /\ op = "scatter" /\ hit.material.tag = "Isotropic" /\ ret.kind = "Some"
    /\ ret.ray.origin = HitPoint /\ ret.ray.time = One
    /\ hit.ray.origin # hit.point

====
